---------------------------- MODULE Spec2Model ----------------------------
(***************************************************************************)
(* A model of src/src/gong-client.ts: the GongClient class, its private    *)
(* request primitive and its eleven public methods.                        *)
(*                                                                         *)
(* JavaScript values are tagged records (field t is the typeof-like tag).  *)
(* A JavaScript string is a sequence of tokens: a token is either one      *)
(* character that URL encoding treats specially, or a run of characters    *)
(* it leaves alone.  String concatenation is \o.                           *)
(***************************************************************************)
EXTENDS Integers, Sequences, FiniteSets, TLC

\* ------------------------------------------------------------------------
\* JavaScript values
\* ------------------------------------------------------------------------

Undef == [t |-> "undefined"]
Null == [t |-> "null"]
Str(s) == [t |-> "string", v |-> s]
Num(n) == [t |-> "number", v |-> n]
Bool(b) == [t |-> "boolean", v |-> b]
Arr(a) == [t |-> "array", v |-> a]
Obj(f) == [t |-> "object", v |-> f]

\* ToBoolean: the falsy values are undefined, null, "", 0 and false.
Truthy(x) ==
    CASE x.t = "undefined" -> FALSE
      [] x.t = "null" -> FALSE
      [] x.t = "string" -> x.v # <<>>
      [] x.t = "number" -> x.v # 0
      [] x.t = "boolean" -> x.v
      [] OTHER -> TRUE

\* x.k and x[i] throw a TypeError when x is undefined or null.
CanRead(x) == x.t \notin {"undefined", "null"}

\* x.k for a readable x: a missing property reads as undefined.
Get(x, k) ==
    IF x.t = "object" /\ k \in DOMAIN x.v THEN x.v[k] ELSE Undef

\* x?.k
OptGet(x, k) == IF CanRead(x) THEN Get(x, k) ELSE Undef

\* x[0] for a readable x.
First(x) ==
    IF x.t = "array" /\ Len(x.v) >= 1 THEN x.v[1] ELSE Undef

\* x || d
OrElse(x, d) == IF Truthy(x) THEN x ELSE d

\* A serialisation that writes an undefined property as null.
RECURSIVE JSONStringify_nulls(_)
JSONStringify_nulls(x) ==
    CASE x.t = "object" -> Obj([k \in DOMAIN x.v |-> JSONStringify_nulls(x.v[k])])
      [] x.t = "array" -> Arr([n \in 1..Len(x.v) |-> JSONStringify_nulls(x.v[n])])
      [] x.t = "undefined" -> Null
      [] OTHER -> x

\* JSON.stringify, as the JSON value the text denotes: a property whose
\* value is undefined is left out, an undefined array element becomes null.
RECURSIVE JSONStringify(_)
JSONStringify(x) ==
    CASE x.t = "object" ->
           Obj([k \in {j \in DOMAIN x.v : x.v[j].t # "undefined"} |->
                    JSONStringify(x.v[k])])
      [] x.t = "array" ->
           Arr([n \in 1..Len(x.v) |->
                    IF x.v[n].t = "undefined" THEN Null
                    ELSE JSONStringify(x.v[n])])
      [] OTHER -> x

\* ------------------------------------------------------------------------
\* URLSearchParams
\* ------------------------------------------------------------------------

\* The tokens application/x-www-form-urlencoded serialisation rewrites.
UrlEncodeToken(c) ==
    CASE c = " " -> "+"
      [] c = "&" -> "%26"
      [] c = "=" -> "%3D"
      [] c = "+" -> "%2B"
      [] c = ":" -> "%3A"
      [] c = "%" -> "%25"
      [] c = "?" -> "%3F"
      [] OTHER -> c

UrlEncode(s) == [n \in 1..Len(s) |-> UrlEncodeToken(s[n])]

\* new URLSearchParams(): an ordered list of <<name, value>> pairs.
URLSearchParams == <<>>

\* queryParams.append(name, value)
append(q, name, value) == Append(q, <<name, value.v>>)

\* queryParams.toString(): name=value pairs joined by "&".
RECURSIVE toString(_)
toString(q) ==
    IF q = <<>> THEN <<>>
    ELSE LET pair == <<q[1][1], "=">> \o UrlEncode(q[1][2])
         IN  IF Len(q) = 1 THEN pair
             ELSE pair \o <<"&">> \o toString(Tail(q))

\* ------------------------------------------------------------------------
\* Construction: the Basic credential
\* ------------------------------------------------------------------------

GONG_API_BASE == <<"https", ":", "//api.gong.io/v2">>

\* The UTF-8 byte of each character the configurations use.
CharCode(c) ==
    CASE c = "k" -> 107
      [] c = "s" -> 115
      [] c = "e" -> 101
      [] c = "y" -> 121
      [] c = ":" -> 58

Base64Alphabet ==
    << "A","B","C","D","E","F","G","H","I","J","K","L","M","N","O","P",
       "Q","R","S","T","U","V","W","X","Y","Z","a","b","c","d","e","f",
       "g","h","i","j","k","l","m","n","o","p","q","r","s","t","u","v",
       "w","x","y","z","0","1","2","3","4","5","6","7","8","9","+","/" >>

\* Buffer.from(text): the bytes of the text.
BufferFrom(s) == [n \in 1..Len(s) |-> CharCode(s[n])]

\* buffer.toString("base64"): three bytes become four sextets, "=" pads.
RECURSIVE Base64(_)
Base64(b) ==
    IF Len(b) = 0 THEN <<>>
    ELSE LET n == Len(b)
             b2 == IF n >= 2 THEN b[2] ELSE 0
             b3 == IF n >= 3 THEN b[3] ELSE 0
             w == b[1] * 65536 + b2 * 256 + b3
         IN  << Base64Alphabet[(w \div 262144) + 1],
                Base64Alphabet[((w \div 4096) % 64) + 1],
                IF n >= 2 THEN Base64Alphabet[((w \div 64) % 64) + 1] ELSE "=",
                IF n >= 3 THEN Base64Alphabet[(w % 64) + 1] ELSE "=" >>
             \o (IF n > 3 THEN Base64(SubSeq(b, 4, n)) ELSE <<>>)

\* The constructor's value of this.authHeader.
constructor(config) ==
    LET credentials ==
            Base64(BufferFrom(config.accessKey \o <<":">> \o config.accessKeySecret))
    IN  <<"Basic ">> \o credentials

\* ------------------------------------------------------------------------
\* Promise outcomes and errors
\* ------------------------------------------------------------------------

Fulfilled(v) == [kind |-> "fulfilled", value |-> v]
Rejected(e) == [kind |-> "rejected", value |-> e]

Error(message) == [t |-> "error", name |-> "Error", message |-> message]

\* The engine's error for a property read of undefined or null.
TypeError == [t |-> "error", name |-> "TypeError",
              message |-> <<"Cannot read properties of undefined">>]

\* The value, unless evaluating it reads a property of undefined or null.
Reading(readable, value) ==
    IF readable THEN Fulfilled(value) ELSE Rejected(TypeError)

\* ------------------------------------------------------------------------
\* request: the authenticated request primitive
\* ------------------------------------------------------------------------

\* The arguments of the one fetch call.
requestFetch(authHeader, endpoint, method, body) ==
    [url |-> GONG_API_BASE \o endpoint,
     method |-> method,
     headers |-> [Authorization |-> authHeader,
                  ContentType |-> <<"application/json">>],
     body |-> IF Truthy(body) THEN JSONStringify(body) ELSE Undef]

\* response.ok
ok(response) == response.status \in 200..299

\* A request that does not look at response.ok.
requestResult_unchecked(response) == Fulfilled(response.json)

\* What request settles to once fetch has resolved with the response.
requestResult(response) ==
    IF ~ok(response)
    THEN Rejected(Error(<<"Gong API error (", ToString(response.status), "): ">>
                        \o response.text))
    ELSE Fulfilled(response.json)

\* ------------------------------------------------------------------------
\* The public methods: the arguments each passes to request, and what each
\* returns from the decoded response
\* ------------------------------------------------------------------------

Args(endpoint, method, body) ==
    [endpoint |-> endpoint, method |-> method, body |-> body]

WithQuery(path, queryParams) ==
    path \o (IF toString(queryParams) # <<>>
             THEN <<"?">> \o toString(queryParams) ELSE <<>>)

\* An append without the test: append(name, undefined) sends "undefined".
AppendIf_always(q, name, value) ==
    append(q, name, IF value.t = "string" THEN value ELSE Str(<<"undefined">>))

AppendIf(q, name, value) ==
    IF Truthy(value) THEN append(q, name, value) ELSE q

listCallsQuery(params) ==
    AppendIf(AppendIf(AppendIf(AppendIf(URLSearchParams,
        "fromDateTime", params.fromDateTime),
        "toDateTime", params.toDateTime),
        "workspaceId", params.workspaceId),
        "cursor", params.cursor)

listCallsRequest(params) ==
    Args(WithQuery(<<"/calls">>, listCallsQuery(params)), "GET", Undef)

listCallsResult(response) ==
    Reading(CanRead(response) /\ CanRead(Get(response, "records")),
            Obj([records |-> Get(response, "calls"),
                 cursor |-> Get(Get(response, "records"), "cursor"),
                 totalRecords |-> Get(Get(response, "records"), "totalRecords")]))

contentSelector ==
    Obj([context |-> Str(<<"Extended">>),
         exposedFields |->
             Obj([parties |-> Bool(TRUE),
                  content |-> Obj([trackers |-> Bool(TRUE),
                                   topics |-> Bool(TRUE),
                                   pointsOfInterest |-> Bool(TRUE)]),
                  collaboration |-> Obj([publicComments |-> Bool(TRUE)])])])

getCallsExtensiveRequest(callIds) ==
    Args(<<"/calls/extensive">>, "POST",
         Obj([filter |-> Obj([callIds |-> callIds]),
              contentSelector |-> contentSelector]))

getCallsExtensiveResult(response) ==
    Reading(CanRead(response), Get(response, "calls"))

getTranscriptRequest(callId) ==
    Args(<<"/calls/transcript">>, "POST",
         Obj([filter |-> Obj([callIds |-> Arr(<<callId>>)])]))

getTranscriptResult(response) ==
    Reading(CanRead(response) /\ CanRead(Get(response, "callTranscripts")),
            First(Get(response, "callTranscripts")))

\* A searchCalls that forwards the search term as a filter.
searchCallsParams_withTerm(params) ==
    [fromDateTime |-> params.fromDateTime,
     toDateTime |-> params.toDateTime,
     workspaceId |-> params.searchTerm,
     cursor |-> params.cursor]

\* The object searchCalls passes to listCalls: it has no workspaceId.
searchCallsParams(params) ==
    [fromDateTime |-> params.fromDateTime,
     toDateTime |-> params.toDateTime,
     workspaceId |-> Undef,
     cursor |-> params.cursor]

searchCallsRequest(params) == listCallsRequest(searchCallsParams(params))

searchCallsResult(response) == listCallsResult(response)

listUsersQuery(cursor) == AppendIf(URLSearchParams, "cursor", cursor)

listUsersRequest(cursor) ==
    Args(WithQuery(<<"/users">>, listUsersQuery(cursor)), "GET", Undef)

\* A listUsers that counts the page instead of passing the total through.
listUsersResult_counted(response) ==
    Reading(CanRead(response) /\ CanRead(Get(response, "records")),
            Obj([records |-> Get(response, "users"),
                 cursor |-> Get(Get(response, "records"), "cursor"),
                 totalRecords |->
                     IF Get(response, "users").t = "array"
                     THEN Num(Len(Get(response, "users").v)) ELSE Undef]))

listUsersResult(response) ==
    Reading(CanRead(response) /\ CanRead(Get(response, "records")),
            Obj([records |-> Get(response, "users"),
                 cursor |-> Get(Get(response, "records"), "cursor"),
                 totalRecords |-> Get(Get(response, "records"), "totalRecords")]))

getUsersRequest(userIds) ==
    Args(<<"/users/extensive">>, "POST",
         Obj([filter |-> Obj([userIds |-> userIds])]))

getUsersResult(response) ==
    Reading(CanRead(response), Get(response, "users"))

getCallsByCrmObjectRequest(params) ==
    Args(<<"/crm/object/calls">>, "POST",
         Obj([filter |-> Obj([objectType |-> params.objectType,
                              objectIds |-> params.objectIds,
                              fromDateTime |-> params.fromDateTime,
                              toDateTime |-> params.toDateTime])]))

getCallsByCrmObjectResult(response) ==
    Reading(CanRead(response), Get(response, "crmCallsLinks"))

listDealsRequest(params) ==
    Args(<<"/crm/deals">>, "POST",
         Obj([filter |-> Obj([fromDateTime |-> params.fromDateTime,
                              toDateTime |-> params.toDateTime]),
              cursor |-> params.cursor]))

listDealsResult(response) ==
    Reading(CanRead(response),
            Obj([records |-> OrElse(Get(response, "deals"), Arr(<<>>)),
                 cursor |-> OptGet(Get(response, "records"), "cursor"),
                 totalRecords |-> OptGet(Get(response, "records"), "totalRecords")]))

listEmailsRequest(params) ==
    Args(<<"/emails">>, "POST",
         Obj([filter |-> Obj([fromDateTime |-> params.fromDateTime,
                              toDateTime |-> params.toDateTime]),
              cursor |-> params.cursor]))

listEmailsResult(response) ==
    Reading(CanRead(response),
            Obj([records |-> OrElse(Get(response, "emailActivities"), Arr(<<>>)),
                 cursor |-> OptGet(Get(response, "records"), "cursor"),
                 totalRecords |-> OptGet(Get(response, "records"), "totalRecords")]))

getUserStatsRequest(params) ==
    Args(<<"/stats/activity/aggregate">>, "POST",
         Obj([filter |-> Obj([fromDate |-> params.fromDate,
                              toDate |-> params.toDate,
                              userIds |-> params.userIds])]))

getUserStatsResult(response) ==
    Reading(CanRead(response), Get(response, "usersStats"))

listLibraryFoldersRequest ==
    Args(<<"/library/folders">>, "GET", Undef)

listLibraryFoldersResult(response) ==
    Reading(CanRead(response), Get(response, "libraryFolders"))

\* What the awaiting method does with the decoded response of its request.
MethodResult(method, response) ==
    CASE method = "listCalls" -> listCallsResult(response)
      [] method = "getCallsExtensive" -> getCallsExtensiveResult(response)
      [] method = "getTranscript" -> getTranscriptResult(response)
      [] method = "searchCalls" -> searchCallsResult(response)
      [] method = "listUsers" -> listUsersResult(response)
      [] method = "getUsers" -> getUsersResult(response)
      [] method = "getCallsByCrmObject" -> getCallsByCrmObjectResult(response)
      [] method = "listDeals" -> listDealsResult(response)
      [] method = "listEmails" -> listEmailsResult(response)
      [] method = "getUserStats" -> getUserStatsResult(response)
      [] method = "listLibraryFolders" -> listLibraryFoldersResult(response)

\* ------------------------------------------------------------------------
\* The inputs: configurations, callers' parameters, upstream responses
\* ------------------------------------------------------------------------

\* The number of callers that may have an invocation in flight at once.
NumCallers == 2

Callers == 1..NumCallers

Configs ==
    { [accessKey |-> <<"k">>, accessKeySecret |-> <<"s">>],
      [accessKey |-> <<"k", "e", "y">>, accessKeySecret |-> <<"s">>] }

FromValue == Str(<<"2024-01-01T00", ":", "00", ":", "00Z">>)
ToValue == Str(<<"2024-02-01T00", ":", "00", ":", "00Z">>)
WorkspaceValue == Str(<<"ws-1">>)
SearchTermValue == Str(<<"renewal">>)
UserIdsValue == Arr(<<Str(<<"u-1">>), Str(<<"u-2">>)>>)
CallIdsValue == Arr(<<Str(<<"call-1">>), Str(<<"call-2">>)>>)

\* The cursor the upstream issues, and one made of the characters URL
\* encoding rewrites.
UpstreamCursor == Str(<<"n1">>)
OddCursor == Str(<<"a", "+", "b", "=", "&", " ", "%", ":">>)

CursorValues == {Undef, Str(<<>>), UpstreamCursor, OddCursor}

NoParams == Undef

SeqInputs ==
    [listCalls |-> [fromDateTime : {Undef, FromValue},
                    toDateTime : {Undef, ToValue},
                    workspaceId : {Undef, WorkspaceValue},
                    cursor : CursorValues],
     getCallsExtensive |-> [callIds : {Arr(<<>>), CallIdsValue}],
     getTranscript |-> [callId : {Str(<<"call-1">>), Str(<<"call-2">>)}],
     searchCalls |-> [searchTerm : {Undef, SearchTermValue},
                      fromDateTime : {Undef, FromValue},
                      toDateTime : {Undef, ToValue},
                      primaryUserIds : {Undef, UserIdsValue},
                      cursor : CursorValues],
     listUsers |-> [cursor : CursorValues],
     getUsers |-> [userIds : {Arr(<<>>), UserIdsValue}],
     getCallsByCrmObject |->
         [objectType : {Str(<<"Account">>), Str(<<"Deal">>),
                        Str(<<"Lead">>), Str(<<"Contact">>)},
          objectIds : {Arr(<<Str(<<"o-1">>)>>)},
          fromDateTime : {Undef, FromValue},
          toDateTime : {Undef, ToValue}],
     listDeals |-> [fromDateTime : {Undef, FromValue},
                    toDateTime : {Undef, ToValue},
                    cursor : CursorValues],
     listEmails |-> [fromDateTime : {Undef, FromValue},
                     toDateTime : {Undef, ToValue},
                     cursor : CursorValues],
     getUserStats |-> [fromDate : {Str(<<"2024-01-01">>)},
                       toDate : {Str(<<"2024-01-31">>)},
                       userIds : {Undef, UserIdsValue}]]

\* The field of the success envelope that holds each method's array.
ArrayField(method) ==
    CASE method \in {"listCalls", "searchCalls", "getCallsExtensive"} -> "calls"
      [] method = "getTranscript" -> "callTranscripts"
      [] method \in {"listUsers", "getUsers"} -> "users"
      [] method = "getCallsByCrmObject" -> "crmCallsLinks"
      [] method = "listDeals" -> "deals"
      [] method = "listEmails" -> "emailActivities"
      [] method = "getUserStats" -> "usersStats"
      [] method = "listLibraryFolders" -> "libraryFolders"

ListingMethods == {"listCalls", "searchCalls", "listUsers", "listDeals", "listEmails"}

Record1 == Obj([id |-> Str(<<"r1">>)])
Record2 == Obj([id |-> Str(<<"r2">>)])

\* The upstream's total is not the length of the page.
LastPageMeta == Obj([currentPageSize |-> Num(2), totalRecords |-> Num(2)])
MorePagesMeta ==
    Obj([currentPageSize |-> Num(2), cursor |-> UpstreamCursor,
         totalRecords |-> Num(7)])

NoFields == [k \in {} |-> Undef]

Envelope(field, meta, array) ==
    Obj(("requestId" :> Str(<<"req-1">>))
        @@ (IF meta.t = "undefined" THEN NoFields ELSE "records" :> meta)
        @@ (IF array.t = "undefined" THEN NoFields ELSE field :> array))

Success(json) == [status |-> 200, text |-> <<>>, json |-> json]
Failure(status, text) == [status |-> status, text |-> text, json |-> Undef]

Failures ==
    { Failure(429, <<"rate limited">>), Failure(500, <<>>) }

SeqResponses(method) ==
    { Success(Envelope(ArrayField(method), meta, array)) :
        meta \in (IF method \in ListingMethods
                  THEN {Undef, LastPageMeta, MorePagesMeta} ELSE {Undef}),
        array \in {Undef, Arr(<<>>), Arr(<<Record1, Record2>>)} }
    \cup Failures

\* The inputs of the concurrent specification: fewer per invocation.
ConcInputs ==
    [listCalls |-> [fromDateTime : {FromValue}, toDateTime : {Undef},
                    workspaceId : {Undef}, cursor : {Undef}],
     getCallsExtensive |-> [callIds : {CallIdsValue}],
     getTranscript |-> [callId : {Str(<<"call-1">>)}],
     searchCalls |-> [searchTerm : {SearchTermValue}, fromDateTime : {FromValue},
                      toDateTime : {Undef}, primaryUserIds : {Undef},
                      cursor : {Undef}],
     listUsers |-> [cursor : {Undef, UpstreamCursor}],
     getUsers |-> [userIds : {UserIdsValue}],
     getCallsByCrmObject |->
         [objectType : {Str(<<"Deal">>)}, objectIds : {Arr(<<Str(<<"o-1">>)>>)},
          fromDateTime : {Undef}, toDateTime : {Undef}],
     listDeals |-> [fromDateTime : {Undef}, toDateTime : {Undef},
                    cursor : {UpstreamCursor}],
     listEmails |-> [fromDateTime : {Undef}, toDateTime : {Undef},
                     cursor : {Undef}],
     getUserStats |-> [fromDate : {Str(<<"2024-01-01">>)},
                       toDate : {Str(<<"2024-01-31">>)},
                       userIds : {Undef}]]

ConcResponses(method) ==
    { Success(Envelope(ArrayField(method),
                       IF method \in ListingMethods THEN MorePagesMeta ELSE Undef,
                       Arr(<<Record1, Record2>>))),
      Failure(429, <<"rate limited">>) }

\* ------------------------------------------------------------------------
\* The state
\* ------------------------------------------------------------------------

VARIABLES
    authHeader,   \* this.authHeader, the client's only field
    pc,           \* each caller's position: idle, awaitFetch, awaitBody, settled
    method,       \* the public method each caller invoked
    params,       \* the arguments it passed
    sent,         \* the fetch calls its invocation has issued, in order
    response,     \* the response its fetch resolved with
    outcome       \* what its invocation settled to

vars == <<authHeader, pc, method, params, sent, response, outcome>>

NoResponse == [status |-> 0, text |-> <<>>, json |-> Undef]
NoOutcome == [kind |-> "pending", value |-> Undef]

Init ==
    /\ \E config \in Configs : authHeader = constructor(config)
    /\ pc = [i \in Callers |-> "idle"]
    /\ method = [i \in Callers |-> "none"]
    /\ params = [i \in Callers |-> NoParams]
    /\ sent = [i \in Callers |-> <<>>]
    /\ response = [i \in Callers |-> NoResponse]
    /\ outcome = [i \in Callers |-> NoOutcome]

\* ------------------------------------------------------------------------
\* The actions
\* ------------------------------------------------------------------------

\* An idle caller invokes a method.
Invoke(i, m, p) ==
    /\ pc[i] = "idle"
    /\ method' = [method EXCEPT ![i] = m]
    /\ params' = [params EXCEPT ![i] = p]
    /\ UNCHANGED <<response, outcome>>

\* A request that rebuilds the stored credential on every call.
request_rebuild(i, args) ==
    /\ sent' = [sent EXCEPT ![i] =
                   <<requestFetch(authHeader, args.endpoint, args.method, args.body)>>]
    /\ pc' = [pc EXCEPT ![i] = "awaitFetch"]
    /\ authHeader' = <<"Basic ">> \o authHeader

\* request, up to its await: it issues the invocation's fetch and suspends
\* the caller.
request(i, args) ==
    /\ sent' = [sent EXCEPT ![i] =
                   <<requestFetch(authHeader, args.endpoint, args.method, args.body)>>]
    /\ pc' = [pc EXCEPT ![i] = "awaitFetch"]
    /\ UNCHANGED authHeader

listCalls(i, inputs) ==
    \E p \in inputs.listCalls :
        Invoke(i, "listCalls", p) /\ request(i, listCallsRequest(p))

getCallsExtensive(i, inputs) ==
    \E p \in inputs.getCallsExtensive :
        Invoke(i, "getCallsExtensive", p)
        /\ request(i, getCallsExtensiveRequest(p.callIds))

getTranscript(i, inputs) ==
    \E p \in inputs.getTranscript :
        Invoke(i, "getTranscript", p) /\ request(i, getTranscriptRequest(p.callId))

searchCalls(i, inputs) ==
    \E p \in inputs.searchCalls :
        Invoke(i, "searchCalls", p) /\ request(i, searchCallsRequest(p))

listUsers(i, inputs) ==
    \E p \in inputs.listUsers :
        Invoke(i, "listUsers", p) /\ request(i, listUsersRequest(p.cursor))

getUsers(i, inputs) ==
    \E p \in inputs.getUsers :
        Invoke(i, "getUsers", p) /\ request(i, getUsersRequest(p.userIds))

getCallsByCrmObject(i, inputs) ==
    \E p \in inputs.getCallsByCrmObject :
        Invoke(i, "getCallsByCrmObject", p)
        /\ request(i, getCallsByCrmObjectRequest(p))

listDeals(i, inputs) ==
    \E p \in inputs.listDeals :
        Invoke(i, "listDeals", p) /\ request(i, listDealsRequest(p))

listEmails(i, inputs) ==
    \E p \in inputs.listEmails :
        Invoke(i, "listEmails", p) /\ request(i, listEmailsRequest(p))

getUserStats(i, inputs) ==
    \E p \in inputs.getUserStats :
        Invoke(i, "getUserStats", p) /\ request(i, getUserStatsRequest(p))

listLibraryFolders(i) ==
    Invoke(i, "listLibraryFolders", NoParams)
    /\ request(i, listLibraryFoldersRequest)

\* The upstream answers the caller's fetch.
fetchResolves(i, answers) ==
    /\ pc[i] = "awaitFetch"
    /\ \E r \in answers : response' = [response EXCEPT ![i] = r]
    /\ pc' = [pc EXCEPT ![i] = "awaitBody"]
    /\ UNCHANGED <<authHeader, method, params, sent, outcome>>

\* A request that fetches once more when the first answer is a failure.
requestSettles_retry(i) ==
    /\ pc[i] = "awaitBody"
    /\ IF ~ok(response[i]) /\ Len(sent[i]) = 1
       THEN /\ sent' = [sent EXCEPT ![i] = Append(@, @[1])]
            /\ pc' = [pc EXCEPT ![i] = "awaitFetch"]
            /\ response' = [response EXCEPT ![i] = NoResponse]
            /\ UNCHANGED <<authHeader, method, params, outcome>>
       ELSE /\ outcome' = [outcome EXCEPT ![i] =
                              LET r == requestResult(response[i])
                              IN  IF r.kind = "rejected" THEN r
                                  ELSE MethodResult(method[i], r.value)]
            /\ pc' = [pc EXCEPT ![i] = "settled"]
            /\ UNCHANGED <<authHeader, method, params, sent, response>>

\* request after its await, and the method that awaits it: a rejection of
\* request passes through the method untouched.
requestSettles(i) ==
    /\ pc[i] = "awaitBody"
    /\ outcome' = [outcome EXCEPT ![i] =
                      LET r == requestResult(response[i])
                      IN  IF r.kind = "rejected" THEN r
                          ELSE MethodResult(method[i], r.value)]
    /\ pc' = [pc EXCEPT ![i] = "settled"]
    /\ UNCHANGED <<authHeader, method, params, sent, response>>

\* The caller's await of the method's promise resumes with the outcome; the
\* client keeps nothing of the invocation.
callerResumes(i) ==
    /\ pc[i] = "settled"
    /\ pc' = [pc EXCEPT ![i] = "idle"]
    /\ method' = [method EXCEPT ![i] = "none"]
    /\ params' = [params EXCEPT ![i] = NoParams]
    /\ sent' = [sent EXCEPT ![i] = <<>>]
    /\ response' = [response EXCEPT ![i] = NoResponse]
    /\ outcome' = [outcome EXCEPT ![i] = NoOutcome]
    /\ UNCHANGED authHeader

\* One caller uses the client, one invocation after another.
Next ==
    \E i \in {1} :
        \/ listCalls(i, SeqInputs)
        \/ getCallsExtensive(i, SeqInputs)
        \/ getTranscript(i, SeqInputs)
        \/ searchCalls(i, SeqInputs)
        \/ listUsers(i, SeqInputs)
        \/ getUsers(i, SeqInputs)
        \/ getCallsByCrmObject(i, SeqInputs)
        \/ listDeals(i, SeqInputs)
        \/ listEmails(i, SeqInputs)
        \/ getUserStats(i, SeqInputs)
        \/ listLibraryFolders(i)
        \/ fetchResolves(i, SeqResponses(method[i]))
        \/ requestSettles(i)
        \/ callerResumes(i)

Spec == Init /\ [][Next]_vars

\* Every caller uses the one client, their invocations interleaved.
ConcNext ==
    \E i \in Callers :
        \/ listCalls(i, ConcInputs)
        \/ getCallsExtensive(i, ConcInputs)
        \/ getTranscript(i, ConcInputs)
        \/ searchCalls(i, ConcInputs)
        \/ listUsers(i, ConcInputs)
        \/ getUsers(i, ConcInputs)
        \/ getCallsByCrmObject(i, ConcInputs)
        \/ listDeals(i, ConcInputs)
        \/ listEmails(i, ConcInputs)
        \/ getUserStats(i, ConcInputs)
        \/ listLibraryFolders(i)
        \/ fetchResolves(i, ConcResponses(method[i]))
        \/ requestSettles(i)
        \/ callerResumes(i)

\* The client of the first configuration.
ConcInit ==
    /\ Init
    /\ authHeader = constructor([accessKey |-> <<"k">>, accessKeySecret |-> <<"s">>])

ConcSpec == ConcInit /\ [][ConcNext]_vars

\* ------------------------------------------------------------------------
\* Reading a request back, as the upstream does
\* ------------------------------------------------------------------------

Settled(i) == pc[i] = "settled"
InFlight(i) == pc[i] # "idle"

\* The invocation's outbound request.
Outbound(i) == sent[i][1]

UrlDecodeToken(c) ==
    CASE c = "+" -> " "
      [] c = "%26" -> "&"
      [] c = "%3D" -> "="
      [] c = "%2B" -> "+"
      [] c = "%3A" -> ":"
      [] c = "%25" -> "%"
      [] c = "%3F" -> "?"
      [] OTHER -> c

\* The positions of the parameter names of a URL's query string.
NamePositions(url) ==
    {k \in 2..(Len(url) - 1) : url[k - 1] \in {"?", "&"} /\ url[k + 1] = "="}

QueryNames(url) == {url[k] : k \in NamePositions(url)}

\* The decoded value of the query parameter called name.
QueryValue(url, name) ==
    LET k == CHOOSE j \in NamePositions(url) : url[j] = name
        stops == {j \in (k + 2)..Len(url) : url[j] = "&"}
        last == IF stops = {} THEN Len(url)
                ELSE (CHOOSE j \in stops : \A h \in stops : j <= h) - 1
    IN  [n \in 1..(last - (k + 1)) |-> UrlDecodeToken(url[k + 1 + n])]

\* Whether the token occurs in the text.
Occurs(token, text) == \E k \in 1..Len(text) : text[k] = token

\* Whether the text holds part as a run of consecutive tokens.
Contains(text, part) ==
    \E k \in 0..(Len(text) - Len(part)) :
        \A n \in 1..Len(part) : text[k + n] = part[n]

\* The success envelope of the response, and whether it has the field.
Has(envelope, k) == envelope.t = "object" /\ k \in DOMAIN envelope.v

\* ------------------------------------------------------------------------
\* The claims
\* ------------------------------------------------------------------------

\* The four listing methods the claims name.
NamedListings == {"listCalls", "listUsers", "listDeals", "listEmails"}

\* C1: a listing method whose success envelope omits the method's array
\* field completes without failure, and the result's records is the empty
\* sequence.
C1_MissingArrayGivesEmptyRecords ==
    \A i \in Callers :
        (/\ Settled(i)
         /\ method[i] \in NamedListings
         /\ ok(response[i])
         /\ ~Has(response[i].json, ArrayField(method[i])))
        => /\ outcome[i].kind = "fulfilled"
           /\ Get(outcome[i].value, "records") = Arr(<<>>)

\* C2: a listing method whose success envelope has no records metadata
\* object does not fail, and the result's cursor and totalRecords are both
\* undefined.
C2_MissingMetadataGivesUndefined ==
    \A i \in Callers :
        (/\ Settled(i)
         /\ method[i] \in NamedListings
         /\ ok(response[i])
         /\ ~Has(response[i].json, "records"))
        => /\ outcome[i].kind = "fulfilled"
           /\ Get(outcome[i].value, "cursor") = Undef
           /\ Get(outcome[i].value, "totalRecords") = Undef

\* C7: getTranscript(callId) sends the filter {callIds: [callId]}; on a
\* success response it does not throw and returns the first element of
\* callTranscripts, which is undefined when the array is empty or the field
\* is absent.
C7_TranscriptFirstOrUndefined ==
    \A i \in Callers :
        (InFlight(i) /\ method[i] = "getTranscript")
        => /\ Outbound(i).body =
                  Obj([filter |-> Obj([callIds |-> Arr(<<params[i].callId>>)])])
           /\ (Settled(i) /\ ok(response[i]))
              => /\ outcome[i].kind = "fulfilled"
                 /\ outcome[i].value =
                        LET list == Get(response[i].json, "callTranscripts")
                        IN  IF list.t = "array" /\ Len(list.v) > 0
                            THEN list.v[1] ELSE Undef

\* C3: when the upstream answers a method's exchange with a non-success
\* status and a body text, the invocation is rejected with one Error whose
\* message holds the status and the text, no method turns it into a normal
\* result, and the invocation has issued no second exchange.
C3_FailureSurfacesOnceWithStatusAndText ==
    \A i \in Callers :
        /\ (pc[i] \in {"awaitBody", "settled"} /\ ~ok(response[i]))
           => Len(sent[i]) = 1
        /\ (Settled(i) /\ ~ok(response[i]))
           => /\ outcome[i].kind = "rejected"
              /\ outcome[i].value.name = "Error"
              /\ Contains(outcome[i].value.message, <<ToString(response[i].status)>>)
              /\ Contains(outcome[i].value.message, response[i].text)

C3_Witness ==
    \E i \in Callers :
        /\ Settled(i)
        /\ response[i].status = 429
        /\ response[i].text = <<"rate limited">>
        /\ outcome[i] =
               Rejected(Error(<<"Gong API error (", "429", "): ", "rate limited">>))

OptionalFilters(m) ==
    CASE m = "listCalls" -> {"fromDateTime", "toDateTime", "workspaceId", "cursor"}
      [] m = "listUsers" -> {"cursor"}
      [] m \in {"listDeals", "listEmails"} -> {"fromDateTime", "toDateTime", "cursor"}

\* C5: an optional filter the caller left unset never appears in a listing
\* method's request: for listCalls and listUsers its name is no parameter
\* of the query string, for listDeals and listEmails its key is in neither
\* the serialised body's filter object nor, for the cursor, the body.
C5_UnsetFilterNeverSent ==
    \A i \in Callers :
        (InFlight(i) /\ method[i] \in NamedListings)
        => \A k \in OptionalFilters(method[i]) :
               params[i][k] = Undef
               => IF method[i] \in {"listCalls", "listUsers"}
                  THEN /\ k \notin QueryNames(Outbound(i).url)
                       /\ Outbound(i).body = Undef
                  ELSE IF k = "cursor"
                       THEN ~Has(Outbound(i).body, "cursor")
                       ELSE /\ Has(Outbound(i).body, "filter")
                            /\ ~Has(Outbound(i).body.v["filter"], k)

C5_Witness ==
    \E i \in Callers :
        /\ InFlight(i)
        /\ method[i] = "listDeals"
        /\ params[i].fromDateTime = Undef
        /\ params[i].toDateTime = ToValue
        /\ params[i].cursor = Undef
        /\ Outbound(i).body = Obj([filter |-> Obj([toDateTime |-> ToValue])])

\* C6: the cursor a listing method's request carries is the cursor its
\* caller passed to that invocation, and an invocation given no cursor
\* sends none: for listCalls and listUsers the query parameter cursor
\* decodes to it, for listDeals and listEmails it is the body's cursor.
C6_CursorIsTheCallersOwn ==
    \A i \in Callers :
        (InFlight(i) /\ method[i] \in NamedListings)
        => IF method[i] \in {"listCalls", "listUsers"}
           THEN /\ params[i].cursor = Undef
                   => "cursor" \notin QueryNames(Outbound(i).url)
                /\ "cursor" \in QueryNames(Outbound(i).url)
                   => Str(QueryValue(Outbound(i).url, "cursor")) = params[i].cursor
           ELSE Get(Outbound(i).body, "cursor") = params[i].cursor

C6_Witness ==
    \E i \in Callers :
        /\ InFlight(i)
        /\ method[i] = "listCalls"
        /\ params[i].cursor = OddCursor
        /\ params[i].fromDateTime = FromValue
        /\ "cursor" \in QueryNames(Outbound(i).url)
        /\ Occurs("%26", Outbound(i).url)

\* C8: given a success envelope whose records metadata object carries a
\* cursor and a totalRecords, a listing method's result has exactly that
\* cursor and that totalRecords, and its records is the envelope's array,
\* in the upstream's order.
C8_MetadataPassesThrough ==
    \A i \in Callers :
        (/\ Settled(i)
         /\ method[i] \in NamedListings
         /\ ok(response[i])
         /\ Has(response[i].json, "records"))
        => LET meta == response[i].json.v["records"]
               result == outcome[i].value
           IN  /\ outcome[i].kind = "fulfilled"
               /\ Get(result, "cursor") = Get(meta, "cursor")
               /\ Get(result, "totalRecords") = Get(meta, "totalRecords")
               /\ Has(response[i].json, ArrayField(method[i]))
                  => Get(result, "records") = response[i].json.v[ArrayField(method[i])]

C8_Witness ==
    \E i \in Callers :
        /\ Settled(i)
        /\ method[i] = "listUsers"
        /\ response[i].json =
               Envelope("users", MorePagesMeta, Arr(<<Record1, Record2>>))
        /\ outcome[i] =
               Fulfilled(Obj([records |-> Arr(<<Record1, Record2>>),
                              cursor |-> UpstreamCursor,
                              totalRecords |-> Num(7)]))

\* C9: every invocation of a public method issues exactly one network
\* exchange, and does not complete before that exchange has.
C9_ExactlyOneExchange ==
    \A i \in Callers :
        /\ pc[i] = "idle" => sent[i] = <<>>
        /\ InFlight(i) => Len(sent[i]) = 1
        /\ pc[i] = "awaitFetch" => response[i] = NoResponse /\ outcome[i] = NoOutcome
        /\ pc[i] = "awaitBody" => response[i] # NoResponse /\ outcome[i] = NoOutcome
        /\ Settled(i) => response[i] # NoResponse /\ outcome[i] # NoOutcome

C9_Witness ==
    /\ \E i \in Callers :
           Settled(i) /\ method[i] = "searchCalls" /\ outcome[i].kind = "fulfilled"
    /\ \E i \in Callers :
           Settled(i) /\ method[i] = "getUsers" /\ outcome[i].kind = "rejected"

\* C10: under any interleaving of invocations on one client the
\* authorization credential is never modified, every outbound request
\* carries it, and an invocation's request and outcome depend only on its
\* own method, parameters and response.
C10_NoSharedMutableState ==
    /\ [][authHeader' = authHeader]_vars
    /\ [](\A i \in Callers :
              \A k \in 1..Len(sent[i]) :
                  sent[i][k].headers.Authorization = authHeader)
    /\ [](\A i, j \in Callers :
              (method[i] = method[j] /\ params[i] = params[j])
              => /\ (InFlight(i) /\ InFlight(j)) => sent[i] = sent[j]
                 /\ (Settled(i) /\ Settled(j) /\ response[i] = response[j])
                    => outcome[i] = outcome[j])

C10_Witness ==
    \E i, j \in Callers :
        /\ i # j
        /\ Settled(i)
        /\ pc[j] = "awaitFetch"
        /\ method[i] = "listUsers"
        /\ method[j] = "listUsers"
        /\ params[i] # params[j]
        /\ outcome[i].kind = "fulfilled"

=============================================================================
